---- MODULE Spec2Model ----
(***************************************************************************)
(* Verification model of the confura sync core:                            *)
(*   - the KV cache syncer (sync loop, epoch window, cache store calls),   *)
(*   - the block-number partitioned log store (logStoreV2),               *)
(*   - the stall monitor (Monitor).                                        *)
(* The sync loop is checked under Spec, under LoadedSpec (started from a   *)
(* loaded bound, no overflow flush) and under FairSpec (fair choice among  *)
(* the ready cases of the select); the epoch window's drain loop under     *)
(* DrainSpec; the log store under LogSpec and, with redelivered epochs,    *)
(* under RevertSpec; the stall monitor under MonitorSpec.                  *)
(***************************************************************************)
EXTENDS Integers, Sequences, FiniteSets, TLC

(* ------------------------------ bounds -------------------------------- *)
\* epoch numbers carried by notifications are 0..MaxEpoch
MaxEpoch == 2
\* model value of the window's decay threshold (decayedEpochGapThreshold,
\* 100000 in the source, scaled down so that an overflow is reachable)
DecayThreshold == 1
\* the largest batch a tick syncs
MaxBatch == 2
\* capacity of subEpochCh (sync.sub.buffer)
SubBuffer == 1
\* the cache store starts empty or holding the epochs 0..m, m <= MaxLoaded
MaxLoaded == 1
\* DrainSpec drains windows over the epochs 0..DrainMaxEpoch
DrainMaxEpoch == 4
\* model value of the partition volume (bnPartitionedLogVolumeSize,
\* 10,000,000 in the source, scaled down so that partitions fill up)
VolumeSize == 2
\* LogSpec pushes the epochs 0..MaxLogEpoch
MaxLogEpoch == 2
\* LogSpec grows at most MaxPartitions partitions
MaxPartitions == 3
\* a Pushn batch holds 1..MaxPushEpochs epochs
MaxPushEpochs == 2
\* heights of the stall monitor are unsigned integers modulo HeightWrap
\* (2^64 in the source, scaled down so that the arithmetic wraps)
HeightWrap == 4
\* model value of MaxStalledDuration, in clock steps
MaxStalledDuration == 1
\* MaxAllowedLag is drawn from 0..MaxLag
MaxLag == 1
\* the monitor is started at most MaxStarts times
MaxStarts == 2
\* capacity of checkPointCh
CheckPointBuffer == 2

Epochs == 0..MaxEpoch

\* uint32(x) of a uint64 x keeps x modulo 2^32; Uint32Wrap is the model value
\* of 2^32, one past the largest batch
Uint32Wrap == MaxBatch + 1

uint32(x) == x % Uint32Wrap

Min(a, b) == IF a < b THEN a ELSE b

SeqRange(s) == {s[i] : i \in 1..Len(s)}

SetMax(S) == CHOOSE x \in S : \A y \in S : y <= x

VARIABLES
  pc,             \* "new" | "running" | "shutdown" | "fatal"
  syncWindow,     \* syncer.syncWindow: [from, to]
  maxSyncEpochs,  \* syncer.maxSyncEpochs
  cache,          \* epochs held by the cache store
  subEpochCh,     \* syncer.subEpochCh: queued epoch notifications
  checkPointCh,   \* syncer.checkPointCh: number of queued checkpoint requests
  ctxDone,        \* the context passed to Sync has been cancelled
  last            \* what the last handled event did (calls it made, outcome)

engineVars == <<pc, syncWindow, maxSyncEpochs, cache, subEpochCh, checkPointCh,
                ctxDone, last>>

\* a window drained by repeated shrinkFrom calls (DrainSpec)
VARIABLES
  drainWindow,    \* the window being drained
  drainCount,     \* the maxCount every call passes
  drainOrigin,    \* the window the drain started from
  drained,        \* the epoch numbers the calls returned so far, in order
  drainLast       \* the last call: the window before it and what it returned

drainVars == <<drainWindow, drainCount, drainOrigin, drained, drainLast>>

\* the block-number partitioned log store (LogSpec)
VARIABLES
  partitions,     \* partition i-1 of entity "logs": [bnMin, bnMax, count, rows]
  ebms,           \* epoch to block range map: ebms[e+1] is the range of epoch e
  logPartition,   \* index preparePartition returned for the next Pushn, or Null
  lastLog         \* the last log store call: its arguments and its effect

logVars == <<partitions, ebms, logPartition, lastLog>>

\* the stall monitor (MonitorSpec)
VARIABLES
  monCancel,      \* m.cancel: the loop it cancels (index in monLoops), or Null
  monLoops,       \* the goroutines started by Start: [pc, cancelled, latest]
  monHeight,      \* m.currentHeight
  monSince,       \* time.Since(m.lastAdvancedAt), capped at MaxStalledDuration
  monLag,         \* m.MaxAllowedLag
  monLast         \* the last call or report: what it was and what it did

monitorVars == <<monCancel, monLoops, monHeight, monSince, monLag, monLast>>

otherVars == <<drainVars, logVars, monitorVars>>

(* --------------------------- epoch window ----------------------------- *)
\* The window is the inclusive range [from, to]; numbers are mathematical
\* integers, so that the empty window {from: 0, to: -1} is representable.

newEpochWindow == [from |-> 0, to |-> 0]

isEmpty(w) == w.to < w.from

peekWillPivotSwitch(w, newEpoch) == newEpoch <= w.to

peekWillOverflow(w, newEpoch, threshold) == newEpoch - w.from > threshold

expandTo(w, newEpoch) ==
  IF newEpoch > w.to THEN [w EXCEPT !.to = newEpoch] ELSE w

expandFrom(w, newEpoch) == [from |-> newEpoch, to |-> newEpoch]

reset(w, from, to) == [from |-> from, to |-> to]

peekShrinkFrom(w, maxCount) ==
  [start |-> w.from,
   size  |-> IF isEmpty(w) THEN 0 ELSE Min(maxCount, w.to - w.from + 1)]

\* shrinkFrom_skip: from is advanced one past the chunk returned
shrinkFrom_skip(w, maxCount) ==
  LET p == peekShrinkFrom(w, maxCount)
  IN  [window |-> [w EXCEPT !.from = w.from + p.size + (IF p.size > 0 THEN 1 ELSE 0)],
       start  |-> p.start,
       size   |-> p.size]

shrinkFrom(w, maxCount) ==
  LET p == peekShrinkFrom(w, maxCount)
  IN  [window |-> [w EXCEPT !.from = w.from + p.size],
       start  |-> p.start,
       size   |-> p.size]

(* ---------------------------- cache store ----------------------------- *)
\* The cache store is seen through its interface only: the set of epochs it
\* holds, grown by Pushn, cut by Popn and emptied by Flush.

CachePushn(c, epochDataSlice) == c \cup SeqRange(epochDataSlice)

CachePopn(c, revertTo) == {x \in c : x < revertTo}

CacheFlush(c) == {}

\* the outcomes GetGlobalEpochRange can have on the store c
GetGlobalEpochRange(c) ==
  (IF c = {} THEN {[err |-> "notfound", max |-> 0]}
             ELSE {[err |-> "none", max |-> SetMax(c)]})
  \cup {[err |-> "other", max |-> 0]}

(* ------------------------- partitioned store -------------------------- *)
\* A partition's range is unset (NULL) until rows are written to it.
Null == -1

NewPartition == [bnMin |-> Null, bnMax |-> Null, count |-> 0, rows |-> <<>>]

\* latestPartition: the highest-index partition, if any
latestPartition(ps) ==
  IF Len(ps) = 0 THEN [ok |-> FALSE, index |-> Null, count |-> 0]
  ELSE [ok |-> TRUE, index |-> Len(ps) - 1, count |-> ps[Len(ps)].count]

\* growPartition: registers partition index = previous + 1 (0 if first)
growPartition(ps) == Append(ps, NewPartition)

\* expandBnRange: stored min only decreases, stored max only increases
expandBnRange(ps, index, bnMin, bnMax) ==
  LET q == ps[index + 1]
  IN  [ps EXCEPT ![index + 1] =
        [q EXCEPT !.bnMin = IF q.bnMin = Null THEN bnMin ELSE Min(q.bnMin, bnMin),
                  !.bnMax = IF q.bnMax = Null \/ q.bnMax < bnMax THEN bnMax
                            ELSE q.bnMax]]

\* shrinkBnRange: the partitions with recorded max >= targetBn, in ascending
\* index order, each cut to targetBn - 1 or marked empty
shrinkBnRange(ps, targetBn) ==
  LET hit(i) == ps[i].bnMax # Null /\ ps[i].bnMax >= targetBn
      cut(q) == IF q.bnMin < targetBn THEN [q EXCEPT !.bnMax = targetBn - 1]
                ELSE [q EXCEPT !.bnMin = Null, !.bnMax = Null]
  IN  [partitions |-> [i \in 1..Len(ps) |-> IF hit(i) THEN cut(ps[i]) ELSE ps[i]],
       returned   |-> SelectSeq([i \in 1..Len(ps) |-> i - 1],
                                LAMBDA x : hit(x + 1))]

\* deltaUpdateCount: adds delta to the partition's count
deltaUpdateCount(ps, index, delta) ==
  [ps EXCEPT ![index + 1].count = @ + delta]

\* epochBlockMapStore.BlockRange
BlockRange(m, epoch) ==
  IF epoch + 1 \in 1..Len(m)
  THEN [ok |-> TRUE, From |-> m[epoch + 1].From, To |-> m[epoch + 1].To]
  ELSE [ok |-> FALSE, From |-> 0, To |-> 0]

(* ------------------------------ log store ------------------------------ *)
\* An EpochData is the sequence of its blocks, the pivot block last; a block
\* is [bn, logs], logs being the number of logs its executed transactions
\* emitted. A row of a partition is the block number of its log.

RECURSIVE EpochLogs(_)
EpochLogs(blocks) ==
  IF blocks = <<>> THEN <<>>
  ELSE [k \in 1..Head(blocks).logs |-> Head(blocks).bn] \o EpochLogs(Tail(blocks))

\* the rows Pushn collects from the batch
RECURSIVE CollectLogs(_)
CollectLogs(dataSlice) ==
  IF dataSlice = <<>> THEN <<>>
  ELSE EpochLogs(Head(dataSlice)) \o CollectLogs(Tail(dataSlice))

GetPivotBlock(data) == data[Len(data)]

\* preparePartition_overfill: a partition that has just reached the volume
\* size is still returned
preparePartition_overfill(ps) ==
  LET l == latestPartition(ps)
  IN  IF ~l.ok \/ l.count > VolumeSize
      THEN [partitions |-> growPartition(ps), index |-> Len(ps)]
      ELSE [partitions |-> ps, index |-> l.index]

\* preparePartition_reuseLatest: a partition is only grown when there is none
preparePartition_reuseLatest(ps) ==
  LET l == latestPartition(ps)
  IN  IF ~l.ok
      THEN [partitions |-> growPartition(ps), index |-> Len(ps)]
      ELSE [partitions |-> ps, index |-> l.index]

\* preparePartition: the latest partition, a new one if there is none or the
\* latest has reached the volume size
preparePartition(ps) ==
  LET l == latestPartition(ps)
  IN  IF ~l.ok \/ l.count >= VolumeSize
      THEN [partitions |-> growPartition(ps), index |-> Len(ps)]
      ELSE [partitions |-> ps, index |-> l.index]

\* Pushn_countEpochs: the count grows by the number of epochs of the batch
Pushn_countEpochs(ps, dataSlice, index, fail) ==
  LET logs == CollectLogs(dataSlice)
  IN  IF Len(logs) > 0 /\ fail = "contract"
      THEN [err |-> "contract", partitions |-> ps, inserted |-> 0]
      ELSE IF Len(logs) = 0
      THEN [err |-> "none", partitions |-> ps, inserted |-> 0]
      ELSE IF fail = "insert"
      THEN [err |-> "insert", partitions |-> ps, inserted |-> 0]
      ELSE
        LET ins   == [ps EXCEPT ![index + 1].rows = @ \o logs]
            bnMin == dataSlice[1][1].bn
            bnMax == GetPivotBlock(dataSlice[Len(dataSlice)]).bn
            exp   == expandBnRange(ins, index, bnMin, bnMax)
        IN  IF fail = "expand"
            THEN [err |-> "expand", partitions |-> ins, inserted |-> Len(logs)]
            ELSE IF fail = "count"
            THEN [err |-> "count", partitions |-> exp, inserted |-> Len(logs)]
            ELSE [err |-> "none",
                  partitions |-> deltaUpdateCount(exp, index, Len(dataSlice)),
                  inserted |-> Len(logs)]

\* Pushn_firstPivot: the range is expanded up to the pivot block of the
\* first epoch of the batch
Pushn_firstPivot(ps, dataSlice, index, fail) ==
  LET logs == CollectLogs(dataSlice)
  IN  IF Len(logs) > 0 /\ fail = "contract"
      THEN [err |-> "contract", partitions |-> ps, inserted |-> 0]
      ELSE IF Len(logs) = 0
      THEN [err |-> "none", partitions |-> ps, inserted |-> 0]
      ELSE IF fail = "insert"
      THEN [err |-> "insert", partitions |-> ps, inserted |-> 0]
      ELSE
        LET ins   == [ps EXCEPT ![index + 1].rows = @ \o logs]
            bnMin == dataSlice[1][1].bn
            bnMax == GetPivotBlock(dataSlice[1]).bn
            exp   == expandBnRange(ins, index, bnMin, bnMax)
        IN  IF fail = "expand"
            THEN [err |-> "expand", partitions |-> ins, inserted |-> Len(logs)]
            ELSE IF fail = "count"
            THEN [err |-> "count", partitions |-> exp, inserted |-> Len(logs)]
            ELSE [err |-> "none",
                  partitions |-> deltaUpdateCount(exp, index, Len(logs)),
                  inserted |-> Len(logs)]

\* Pushn into partition index; fail names the call that returns an error.
\* The result holds the partitions as the call leaves them in the transaction.
Pushn(ps, dataSlice, index, fail) ==
  LET logs == CollectLogs(dataSlice)
  IN  IF Len(logs) > 0 /\ fail = "contract"
      THEN [err |-> "contract", partitions |-> ps, inserted |-> 0]
      ELSE IF Len(logs) = 0
      THEN [err |-> "none", partitions |-> ps, inserted |-> 0]
      ELSE IF fail = "insert"
      THEN [err |-> "insert", partitions |-> ps, inserted |-> 0]
      ELSE
        LET ins   == [ps EXCEPT ![index + 1].rows = @ \o logs]
            bnMin == dataSlice[1][1].bn
            bnMax == GetPivotBlock(dataSlice[Len(dataSlice)]).bn
            exp   == expandBnRange(ins, index, bnMin, bnMax)
        IN  IF fail = "expand"
            THEN [err |-> "expand", partitions |-> ins, inserted |-> Len(logs)]
            ELSE IF fail = "count"
            THEN [err |-> "count", partitions |-> exp, inserted |-> Len(logs)]
            ELSE [err |-> "none",
                  partitions |-> deltaUpdateCount(exp, index, Len(logs)),
                  inserted |-> Len(logs)]

\* PopnLoop_ascending: the delete loop runs from the first partition returned
\* up to the last
RECURSIVE PopnLoop_ascending(_, _, _, _, _)
PopnLoop_ascending(ps, returned, i, bnFrom, failDelete) ==
  IF i < 1 THEN [err |-> "none", partitions |-> ps, order |-> <<>>]
  ELSE IF failDelete THEN [err |-> "delete", partitions |-> ps, order |-> <<>>]
  ELSE
    LET index == returned[Len(returned) - i + 1]
        kept  == SelectSeq(ps[index + 1].rows, LAMBDA bn : bn < bnFrom)
        rowsAffected == Len(ps[index + 1].rows) - Len(kept)
        del   == [ps EXCEPT ![index + 1].rows = kept]
        rest  == PopnLoop_ascending(deltaUpdateCount(del, index, -rowsAffected),
                                    returned, i - 1, bnFrom, FALSE)
    IN  [rest EXCEPT !.order = <<index>> \o @]

\* the delete loop of Popn over the partitions shrinkBnRange returned, from
\* the last one down to the first; failDelete makes the first delete fail;
\* order lists the partitions in the order their rows were deleted
RECURSIVE PopnLoop(_, _, _, _, _)
PopnLoop(ps, returned, i, bnFrom, failDelete) ==
  IF i < 1 THEN [err |-> "none", partitions |-> ps, order |-> <<>>]
  ELSE IF failDelete THEN [err |-> "delete", partitions |-> ps, order |-> <<>>]
  ELSE
    LET index == returned[i]
        kept  == SelectSeq(ps[index + 1].rows, LAMBDA bn : bn < bnFrom)
        rowsAffected == Len(ps[index + 1].rows) - Len(kept)
        del   == [ps EXCEPT ![index + 1].rows = kept]
        rest  == PopnLoop(deltaUpdateCount(del, index, -rowsAffected), returned,
                          i - 1, bnFrom, FALSE)
    IN  [rest EXCEPT !.order = <<index>> \o @]

\* Popn_skipLast: the delete loop starts below the last partition returned
Popn_skipLast(ps, m, epochUntil, fail) ==
  LET bn == BlockRange(m, epochUntil)
  IN  IF fail = "lookup"
      THEN [err |-> "lookup", partitions |-> ps, bnFrom |-> Null, returned |-> <<>>,
            order |-> <<>>]
      ELSE IF ~bn.ok
      THEN [err |-> "nomapping", partitions |-> ps, bnFrom |-> Null, returned |-> <<>>,
            order |-> <<>>]
      ELSE IF fail = "shrink"
      THEN [err |-> "shrink", partitions |-> ps, bnFrom |-> bn.From, returned |-> <<>>,
            order |-> <<>>]
      ELSE
        LET sh == shrinkBnRange(ps, bn.From)
            r  == PopnLoop(sh.partitions, sh.returned, Len(sh.returned) - 1, bn.From,
                           fail = "delete")
        IN  [err |-> r.err, partitions |-> r.partitions, bnFrom |-> bn.From,
             returned |-> sh.returned, order |-> r.order]

\* Popn_shrinkFirst: the ranges are shrunk before the mapping is looked at
Popn_shrinkFirst(ps, m, epochUntil, fail) ==
  LET bn == BlockRange(m, epochUntil)
  IN  IF fail = "lookup"
      THEN [err |-> "lookup", partitions |-> ps, bnFrom |-> Null, returned |-> <<>>,
            order |-> <<>>]
      ELSE IF ~bn.ok
      THEN [err |-> "nomapping", partitions |-> shrinkBnRange(ps, bn.From).partitions,
            bnFrom |-> Null, returned |-> <<>>, order |-> <<>>]
      ELSE IF fail = "shrink"
      THEN [err |-> "shrink", partitions |-> ps, bnFrom |-> bn.From, returned |-> <<>>,
            order |-> <<>>]
      ELSE
        LET sh == shrinkBnRange(ps, bn.From)
            r  == PopnLoop(sh.partitions, sh.returned, Len(sh.returned), bn.From,
                           fail = "delete")
        IN  [err |-> r.err, partitions |-> r.partitions, bnFrom |-> bn.From,
             returned |-> sh.returned, order |-> r.order]

\* Popn until epochUntil; fail names the call that returns an error.
Popn(ps, m, epochUntil, fail) ==
  LET bn == BlockRange(m, epochUntil)
  IN  IF fail = "lookup"
      THEN [err |-> "lookup", partitions |-> ps, bnFrom |-> Null, returned |-> <<>>,
            order |-> <<>>]
      ELSE IF ~bn.ok
      THEN [err |-> "nomapping", partitions |-> ps, bnFrom |-> Null, returned |-> <<>>,
            order |-> <<>>]
      ELSE IF fail = "shrink"
      THEN [err |-> "shrink", partitions |-> ps, bnFrom |-> bn.From, returned |-> <<>>,
            order |-> <<>>]
      ELSE
        LET sh == shrinkBnRange(ps, bn.From)
            r  == PopnLoop(sh.partitions, sh.returned, Len(sh.returned), bn.From,
                           fail = "delete")
        IN  [err |-> r.err, partitions |-> r.partitions, bnFrom |-> bn.From,
             returned |-> sh.returned, order |-> r.order]

(* ---------------------------- stall monitor ---------------------------- *)
\* A loop is the goroutine one Start launched: pc is "select" (waiting in the
\* select of run), "fetch" (in checkOnce, calling getLatestHeight), "check"
\* (in checkOnce, about to take the mutex, holding latest) or "done";
\* cancelled tells whether its context has been cancelled.
NewLoop == [pc |-> "select", cancelled |-> FALSE, latest |-> 0]

\* reset: the height and the time since the last advance after it
Monitor_reset == [currentHeight |-> 0, since |-> 0]

\* Start_keepPrevious: the loop of an earlier Start is not cancelled
Start_keepPrevious(loops, cancel) ==
  [loops |-> Append(loops, NewLoop), cancel |-> Len(loops) + 1,
   currentHeight |-> Monitor_reset.currentHeight, since |-> Monitor_reset.since]

\* Start: cancels the loop m.cancel stands for, launches a new one
Start(loops, cancel) ==
  LET previous == IF cancel # Null THEN [loops EXCEPT ![cancel].cancelled = TRUE]
                  ELSE loops
  IN  [loops |-> Append(previous, NewLoop), cancel |-> Len(loops) + 1,
       currentHeight |-> Monitor_reset.currentHeight, since |-> Monitor_reset.since]

\* Stop: cancels the loop m.cancel stands for and clears m.cancel
Stop(loops, cancel) ==
  IF cancel # Null
  THEN [loops |-> [loops EXCEPT ![cancel].cancelled = TRUE], cancel |-> Null]
  ELSE [loops |-> loops, cancel |-> cancel]

\* Update: the time since the last advance restarts if the height increases
Update(currentHeight, since, newHeight) ==
  [currentHeight |-> newHeight,
   since |-> IF newHeight > currentHeight THEN 0 ELSE since]

\* m.currentHeight+m.MaxAllowedLag-1 < latestHeight, in unsigned arithmetic
heightLagging(currentHeight, maxAllowedLag, latestHeight) ==
  (currentHeight + maxAllowedLag + HeightWrap - 1) % HeightWrap < latestHeight

\* checkOnce: what it reports to the health counter; err is the error of
\* getLatestHeight, since the time since the last advance
checkOnce(err, latestHeight, since, currentHeight, maxAllowedLag) ==
  IF err THEN "failure"
  ELSE IF since < MaxStalledDuration THEN "success"
  ELSE IF heightLagging(currentHeight, maxAllowedLag, latestHeight) THEN "failure"
  ELSE "success"

(* ------------------------------ events -------------------------------- *)
NoCalls ==
  [peek |-> <<>>, fetched |-> <<>>, pushn |-> <<>>, shrink |-> <<>>,
   popn |-> <<>>, flush |-> 0, expandTo |-> 0, tickerReset |-> "none"]

\* kind: the event handled; e: the notified epoch; pre: the window before it;
\* dup: the event before it was a successfully handled notification of e too
Event(kind, e, pre, calls, err) ==
  [kind |-> kind, e |-> e, pre |-> pre, calls |-> calls, err |-> err,
   dup |-> FALSE]

\* mustLoadLastSyncEpoch_offByOne: the window starts two past the loaded bound
mustLoadLastSyncEpoch_offByOne(w, r) ==
  IF r.err = "none" THEN [window |-> reset(w, r.max + 2, r.max), fatal |-> FALSE]
  ELSE IF r.err = "notfound" THEN [window |-> w, fatal |-> FALSE]
  ELSE [window |-> w, fatal |-> TRUE]

\* mustLoadLastSyncEpoch_ignoreErr: every error is taken for record-not-found
mustLoadLastSyncEpoch_ignoreErr(w, r) ==
  IF r.err = "none" THEN [window |-> reset(w, r.max + 1, r.max), fatal |-> FALSE]
  ELSE [window |-> w, fatal |-> FALSE]

\* mustLoadLastSyncEpoch_fromMax: the window starts at the loaded bound itself
mustLoadLastSyncEpoch_fromMax(w, r) ==
  IF r.err = "none" THEN [window |-> reset(w, r.max, r.max), fatal |-> FALSE]
  ELSE IF r.err = "notfound" THEN [window |-> w, fatal |-> FALSE]
  ELSE [window |-> w, fatal |-> TRUE]

\* mustLoadLastSyncEpoch: the window after the load, and whether it is fatal
mustLoadLastSyncEpoch(w, r) ==
  IF r.err = "none" THEN [window |-> reset(w, r.max + 1, r.max), fatal |-> FALSE]
  ELSE IF r.err = "notfound" THEN [window |-> w, fatal |-> FALSE]
  ELSE [window |-> w, fatal |-> TRUE]

\* pivotSwitchBranch_expandOnErr: the window is reset although Popn failed
pivotSwitchBranch_expandOnErr(w, c, newEpoch, storeOk) ==
  [window |-> expandFrom(w, newEpoch),
   cache |-> IF storeOk THEN CachePopn(c, newEpoch) ELSE c,
   calls |-> [NoCalls EXCEPT !.popn = <<newEpoch>>],
   err |-> IF storeOk THEN "none" ELSE "popn"]

\* the pivot switch branch of handleNewEpoch
pivotSwitchBranch(w, c, newEpoch, storeOk) ==
  IF storeOk
  THEN [window |-> expandFrom(w, newEpoch), cache |-> CachePopn(c, newEpoch),
        calls |-> [NoCalls EXCEPT !.popn = <<newEpoch>>], err |-> "none"]
  ELSE [window |-> w, cache |-> c,
        calls |-> [NoCalls EXCEPT !.popn = <<newEpoch>>], err |-> "popn"]

\* overflowBranch_keepFrom: after the flush the window is extended, not reset
overflowBranch_keepFrom(w, c, newEpoch, storeOk) ==
  IF storeOk
  THEN [window |-> expandTo(w, newEpoch), cache |-> CacheFlush(c),
        calls |-> [NoCalls EXCEPT !.flush = 1], err |-> "none"]
  ELSE [window |-> w, cache |-> c,
        calls |-> [NoCalls EXCEPT !.flush = 1], err |-> "flush"]

\* the overflow branch of handleNewEpoch
overflowBranch(w, c, newEpoch, storeOk) ==
  IF storeOk
  THEN [window |-> reset(w, newEpoch, newEpoch), cache |-> CacheFlush(c),
        calls |-> [NoCalls EXCEPT !.flush = 1], err |-> "none"]
  ELSE [window |-> w, cache |-> c,
        calls |-> [NoCalls EXCEPT !.flush = 1], err |-> "flush"]

\* handleNewEpoch_noDuplicate: a notification of the window's own upper bound
\* is not taken for a pivot switch
handleNewEpoch_noDuplicate(w, c, newEpoch, storeOk, threshold) ==
  IF peekWillPivotSwitch(w, newEpoch) /\ newEpoch # w.to
  THEN pivotSwitchBranch(w, c, newEpoch, storeOk)
  ELSE IF peekWillOverflow(w, newEpoch, threshold)
  THEN overflowBranch(w, c, newEpoch, storeOk)
  ELSE [window |-> expandTo(w, newEpoch), cache |-> c,
        calls |-> [NoCalls EXCEPT !.expandTo = 1], err |-> "none"]

\* handleNewEpoch; threshold is the capacity the window was built with
handleNewEpoch(w, c, newEpoch, storeOk, threshold) ==
  IF peekWillPivotSwitch(w, newEpoch)
  THEN pivotSwitchBranch(w, c, newEpoch, storeOk)
  ELSE IF peekWillOverflow(w, newEpoch, threshold)
  THEN overflowBranch(w, c, newEpoch, storeOk)
  ELSE [window |-> expandTo(w, newEpoch), cache |-> c,
        calls |-> [NoCalls EXCEPT !.expandTo = 1], err |-> "none"]

\* syncOnce_shrinkOnPushErr: the window is advanced although Pushn failed
syncOnce_shrinkOnPushErr(w, c, n, failAt, pushOk) ==
  IF isEmpty(w)
  THEN [window |-> w, cache |-> c, complete |-> TRUE, calls |-> NoCalls,
        err |-> "none"]
  ELSE
    LET p      == peekShrinkFrom(w, n)
        wanted == [i \in 1..p.size |-> p.start + (i - 1)]
        peeked == [NoCalls EXCEPT !.peek = <<p.start, p.size>>]
    IN  IF failAt \in 1..p.size
        THEN [window |-> w, cache |-> c, complete |-> FALSE,
              calls |-> [peeked EXCEPT !.fetched = SubSeq(wanted, 1, failAt)],
              err |-> "fetch"]
        ELSE IF ~pushOk
        THEN [window |-> shrinkFrom(w, n).window, cache |-> c, complete |-> FALSE,
              calls |-> [peeked EXCEPT !.fetched = wanted, !.pushn = <<wanted>>],
              err |-> "pushn"]
        ELSE
          LET s == shrinkFrom(w, n)
          IN  [window |-> s.window, cache |-> CachePushn(c, wanted),
               complete |-> isEmpty(s.window),
               calls |-> [peeked EXCEPT !.fetched = wanted,
                                        !.pushn = <<wanted>>,
                                        !.shrink = <<s.start, s.size>>],
               err |-> "none"]

\* syncOnce_offByOne: the fetch loop starts one epoch past syncFrom
syncOnce_offByOne(w, c, n, failAt, pushOk) ==
  IF isEmpty(w)
  THEN [window |-> w, cache |-> c, complete |-> TRUE, calls |-> NoCalls,
        err |-> "none"]
  ELSE
    LET p      == peekShrinkFrom(w, n)
        wanted == [i \in 1..p.size |-> p.start + i]
        peeked == [NoCalls EXCEPT !.peek = <<p.start, p.size>>]
    IN  IF failAt \in 1..p.size
        THEN [window |-> w, cache |-> c, complete |-> FALSE,
              calls |-> [peeked EXCEPT !.fetched = SubSeq(wanted, 1, failAt)],
              err |-> "fetch"]
        ELSE IF ~pushOk
        THEN [window |-> w, cache |-> c, complete |-> FALSE,
              calls |-> [peeked EXCEPT !.fetched = wanted, !.pushn = <<wanted>>],
              err |-> "pushn"]
        ELSE
          LET s == shrinkFrom(w, n)
          IN  [window |-> s.window, cache |-> CachePushn(c, wanted),
               complete |-> isEmpty(s.window),
               calls |-> [peeked EXCEPT !.fetched = wanted,
                                        !.pushn = <<wanted>>,
                                        !.shrink = <<s.start, s.size>>],
               err |-> "none"]

\* syncOnce: failAt = k in 1..size makes the k-th QueryEpochData fail,
\* any other value lets every fetch succeed; pushOk is Pushn's outcome.
syncOnce(w, c, n, failAt, pushOk) ==
  IF isEmpty(w)
  THEN [window |-> w, cache |-> c, complete |-> TRUE, calls |-> NoCalls,
        err |-> "none"]
  ELSE
    LET p      == peekShrinkFrom(w, n)
        wanted == [i \in 1..p.size |-> p.start + (i - 1)]
        peeked == [NoCalls EXCEPT !.peek = <<p.start, p.size>>]
    IN  IF failAt \in 1..p.size
        THEN [window |-> w, cache |-> c, complete |-> FALSE,
              calls |-> [peeked EXCEPT !.fetched = SubSeq(wanted, 1, failAt)],
              err |-> "fetch"]
        ELSE IF ~pushOk
        THEN [window |-> w, cache |-> c, complete |-> FALSE,
              calls |-> [peeked EXCEPT !.fetched = wanted, !.pushn = <<wanted>>],
              err |-> "pushn"]
        ELSE
          LET s == shrinkFrom(w, n)
          IN  [window |-> s.window, cache |-> CachePushn(c, wanted),
               complete |-> isEmpty(s.window),
               calls |-> [peeked EXCEPT !.fetched = wanted,
                                        !.pushn = <<wanted>>,
                                        !.shrink = <<s.start, s.size>>],
               err |-> "none"]

\* doTicker: the interval the ticker is reset to after syncOnce
doTicker(r) ==
  IF r.err # "none" THEN "normal"
  ELSE IF r.complete THEN "normal"
  ELSE "catchUp"

(* ------------------------------ actions ------------------------------- *)
\* op: the call; err: its error; pre: the partitions before it; tx: the
\* partitions as the call left them in its transaction
NoLogCall ==
  [op |-> "none", err |-> "none", pre |-> <<>>, tx |-> <<>>, index |-> Null,
   inserted |-> 0, epoch |-> Null, bnFrom |-> Null,
   returned |-> <<>>, order |-> <<>>, mapped |-> FALSE]

NoDrainCall == [called |-> FALSE, pre |-> newEpochWindow, start |-> 0, size |-> 0]

DrainIdle ==
  /\ drainWindow = newEpochWindow
  /\ drainCount = 1
  /\ drainOrigin = newEpochWindow
  /\ drained = <<>>
  /\ drainLast = NoDrainCall

LogIdle ==
  /\ partitions = <<>>
  /\ ebms = <<>>
  /\ logPartition = Null
  /\ lastLog = NoLogCall

\* kind: "start" | "stop" | "report"; for a report: the loop, the result, the
\* error of the height source, whether the time since the last advance was
\* below MaxStalledDuration and whether the loop's context was cancelled;
\* for a Start or Stop: whether m.cancel was nil before it, and for a Stop
\* whether it changed anything
NoMonCall ==
  [kind |-> "none", loop |-> 0, result |-> "none", err |-> FALSE,
   within |-> FALSE, cancelled |-> FALSE, noop |-> FALSE, changed |-> FALSE]

MonitorIdle ==
  /\ monCancel = Null
  /\ monLoops = <<>>
  /\ monHeight = 0
  /\ monSince = 0
  /\ monLag = 0
  /\ monLast = NoMonCall

EngineIdle ==
  /\ pc = "new"
  /\ syncWindow = newEpochWindow
  /\ maxSyncEpochs = 0
  /\ cache = {}
  /\ subEpochCh = <<>>
  /\ checkPointCh = 0
  /\ ctxDone = FALSE
  /\ last = Event("none", 0, newEpochWindow, NoCalls, "none")

Init ==
  /\ pc = "new"
  /\ syncWindow = newEpochWindow
  /\ maxSyncEpochs \in 0..Uint32Wrap
  /\ cache \in {{}} \cup {0..m : m \in 0..MaxLoaded}
  /\ subEpochCh = <<>>
  /\ checkPointCh = 0
  /\ ctxDone = FALSE
  /\ last = Event("none", 0, newEpochWindow, NoCalls, "none")
  /\ DrainIdle
  /\ LogIdle
  /\ MonitorIdle

\* NewKVCacheSyncer: ensureStoreEpochDataOk, then mustLoadLastSyncEpoch
NewKVCacheSyncer ==
  /\ pc = "new"
  /\ \E ensureOk \in BOOLEAN :
     \E r \in GetGlobalEpochRange(cache) :
       LET l == mustLoadLastSyncEpoch(syncWindow, r)
       IN  /\ pc' = IF ~ensureOk \/ l.fatal THEN "fatal" ELSE "running"
           /\ syncWindow' = IF ensureOk THEN l.window ELSE syncWindow
           /\ last' = Event("load", 0, syncWindow, NoCalls,
                            IF ~ensureOk THEN "ensure" ELSE r.err)
  /\ UNCHANGED otherVars
  /\ UNCHANGED <<maxSyncEpochs, cache, subEpochCh, checkPointCh, ctxDone>>

\* a loop that leaves the select on ctx.Done() and selects again
Shutdown_keepRunning ==
  /\ pc = "running"
  /\ ctxDone
  /\ pc' = "running"
  /\ last' = Event("shutdown", 0, syncWindow, NoCalls, "none")
  /\ UNCHANGED otherVars
  /\ UNCHANGED <<syncWindow, maxSyncEpochs, cache, subEpochCh, checkPointCh,
                 ctxDone>>

\* Sync: case <-ctx.Done()
Shutdown ==
  /\ pc = "running"
  /\ ctxDone
  /\ pc' = "shutdown"
  /\ last' = Event("shutdown", 0, syncWindow, NoCalls, "none")
  /\ UNCHANGED otherVars
  /\ UNCHANGED <<syncWindow, maxSyncEpochs, cache, subEpochCh, checkPointCh,
                 ctxDone>>

\* Sync: case <-syncer.checkPointCh
DoCheckPoint ==
  /\ pc = "running"
  /\ checkPointCh > 0
  /\ checkPointCh' = checkPointCh - 1
  /\ \E ok \in BOOLEAN :
       last' = Event("checkpoint", 0, syncWindow, NoCalls,
                     IF ok THEN "none" ELSE "ensure")
  /\ UNCHANGED otherVars
  /\ UNCHANGED <<pc, syncWindow, maxSyncEpochs, cache, subEpochCh, ctxDone>>

\* Sync: case newEpoch := <-syncer.subEpochCh
HandleNewEpoch ==
  /\ pc = "running"
  /\ subEpochCh # <<>>
  /\ \E storeOk \in BOOLEAN :
       LET e == Head(subEpochCh)
           r == handleNewEpoch(syncWindow, cache, e, storeOk, DecayThreshold)
       IN  /\ syncWindow' = r.window
           /\ cache' = r.cache
           /\ last' = [Event("epoch", e, syncWindow, r.calls, r.err)
                         EXCEPT !.dup = /\ last.kind = "epoch"
                                        /\ last.e = e
                                        /\ last.err = "none"]
  /\ subEpochCh' = Tail(subEpochCh)
  /\ UNCHANGED otherVars
  /\ UNCHANGED <<pc, maxSyncEpochs, checkPointCh, ctxDone>>

\* Sync: case <-ticker.C
DoTicker ==
  /\ pc = "running"
  /\ \E failAt \in 0..MaxBatch + 1 : \E pushOk \in BOOLEAN :
       LET r == syncOnce(syncWindow, cache, uint32(maxSyncEpochs), failAt, pushOk)
       IN  /\ syncWindow' = r.window
           /\ cache' = r.cache
           /\ last' = Event("tick", 0, syncWindow,
                            [r.calls EXCEPT !.tickerReset = doTicker(r)], r.err)
  /\ UNCHANGED otherVars
  /\ UNCHANGED <<pc, maxSyncEpochs, subEpochCh, checkPointCh, ctxDone>>

\* onEpochReceived, on the subscription's goroutine (blocks on a full channel)
OnEpochReceived ==
  /\ pc \in {"running", "shutdown"}
  /\ Len(subEpochCh) < SubBuffer
  /\ \E epochNo \in Epochs : subEpochCh' = Append(subEpochCh, epochNo)
  /\ UNCHANGED otherVars
  /\ UNCHANGED <<pc, syncWindow, maxSyncEpochs, cache, checkPointCh, ctxDone, last>>

\* onEpochSubStart, on the subscription's goroutine
OnEpochSubStart ==
  /\ pc \in {"running", "shutdown"}
  /\ checkPointCh < CheckPointBuffer
  /\ checkPointCh' = checkPointCh + 1
  /\ UNCHANGED otherVars
  /\ UNCHANGED <<pc, syncWindow, maxSyncEpochs, cache, subEpochCh, ctxDone, last>>

\* the owner of the context cancels it
Cancel ==
  /\ pc = "running"
  /\ ~ctxDone
  /\ ctxDone' = TRUE
  /\ UNCHANGED otherVars
  /\ UNCHANGED <<pc, syncWindow, maxSyncEpochs, cache, subEpochCh,
                 checkPointCh, last>>

Next ==
  \/ NewKVCacheSyncer
  \/ Shutdown
  \/ DoCheckPoint
  \/ HandleNewEpoch
  \/ DoTicker
  \/ OnEpochReceived
  \/ OnEpochSubStart
  \/ Cancel

vars == <<engineVars, otherVars>>

Spec == Init /\ [][Next]_vars

(* ------------- sync loop from a loaded bound (LoadedSpec) -------------- *)
\* The executions of the sync loop that start from a store holding epochs
\* and in which no notification is handled by an overflow flush.
LoadedInit ==
  /\ Init
  /\ cache # {}

\* the step handles a notification in the overflow branch
OverflowStep ==
  /\ HandleNewEpoch
  /\ last'.calls.flush = 1

LoadedNext ==
  /\ Next
  /\ ~OverflowStep

LoadedSpec == LoadedInit /\ [][LoadedNext]_vars

(* ---------------- sync loop under fair choice (FairSpec) --------------- *)
\* The select of Sync picks at random among its ready cases, so a case that
\* stays ready is taken; the ticker's case is ready again after each interval.
FairSpec ==
  /\ Spec
  /\ WF_vars(Shutdown)
  /\ WF_vars(DoCheckPoint)
  /\ WF_vars(HandleNewEpoch)
  /\ WF_vars(DoTicker)

(* ---------------------- draining a window (DrainSpec) ------------------ *)
\* every window with to >= from - 1 over the epochs 0..DrainMaxEpoch
DrainWindows ==
  {[from |-> f, to |-> t] : f \in 0..DrainMaxEpoch + 1, t \in -1..DrainMaxEpoch}
    \ {w \in [from : 0..DrainMaxEpoch + 1, to : -1..DrainMaxEpoch] : w.to < w.from - 1}

DrainInit ==
  /\ EngineIdle
  /\ LogIdle
  /\ MonitorIdle
  /\ drainWindow \in DrainWindows
  /\ drainCount \in 1..MaxBatch + 1
  /\ drainOrigin = drainWindow
  /\ drained = <<>>
  /\ drainLast = NoDrainCall

DrainCall ==
  LET r == shrinkFrom(drainWindow, drainCount)
  IN  /\ drainWindow' = r.window
      /\ drained' = drained \o [i \in 1..r.size |-> r.start + (i - 1)]
      /\ drainLast' = [called |-> TRUE, pre |-> drainWindow,
                       start |-> r.start, size |-> r.size]
      /\ UNCHANGED <<drainCount, drainOrigin, engineVars, logVars, monitorVars>>

\* one more shrinkFrom while the window is not empty
DrainShrink ==
  /\ ~isEmpty(drainWindow)
  /\ DrainCall

\* a shrinkFrom on the window once it is empty
DrainShrinkEmpty ==
  /\ isEmpty(drainWindow)
  /\ ~(drainLast.called /\ isEmpty(drainLast.pre))
  /\ DrainCall

DrainNext ==
  \/ DrainShrink
  \/ DrainShrinkEmpty

DrainSpec == DrainInit /\ [][DrainNext]_vars

(* ------------------------- log store (LogSpec) ------------------------- *)
\* the epochs pushed, each given by the number of logs of each of its blocks:
\* a block without logs, a block with one log, a logging block before a
\* pivot block without logs, and a silent block before a pivot block with two
EpochShapes == {<<0>>, <<1>>, <<1, 0>>, <<0, 2>>}

RECURSIVE BuildData(_, _)
\* the batch of the given shapes, its blocks numbered from startBn on
BuildData(shapes, startBn) ==
  IF shapes = <<>> THEN <<>>
  ELSE <<[i \in 1..Len(Head(shapes)) |->
            [bn |-> startBn + (i - 1), logs |-> Head(shapes)[i]]]>>
       \o BuildData(Tail(shapes), startBn + Len(Head(shapes)))

\* the block ranges of a batch, as the epoch to block map records them
BlockRanges(dataSlice) ==
  [i \in 1..Len(dataSlice) |->
     [From |-> dataSlice[i][1].bn, To |-> GetPivotBlock(dataSlice[i]).bn]]

NextBn == IF ebms = <<>> THEN 0 ELSE ebms[Len(ebms)].To + 1

LogInit ==
  /\ EngineIdle
  /\ DrainIdle
  /\ LogIdle
  /\ MonitorIdle

\* the store prepares the partition of the batch it is about to push
LogPreparePartition ==
  /\ logPartition = Null
  /\ Len(ebms) <= MaxLogEpoch
  /\ LET r == preparePartition(partitions)
     IN  /\ Len(r.partitions) <= MaxPartitions
         /\ partitions' = r.partitions
         /\ logPartition' = r.index
         /\ lastLog' = [NoLogCall EXCEPT !.op = "prepare", !.pre = partitions,
                                         !.tx = r.partitions, !.index = r.index]
  /\ UNCHANGED <<ebms, engineVars, drainVars, monitorVars>>

\* the store pushes the next epochs of the chain in one transaction, which
\* is rolled back when Pushn returns an error
LogPushn ==
  /\ logPartition # Null
  /\ \E k \in 1..MaxPushEpochs :
     \E shapes \in [1..k -> EpochShapes] :
     \E fail \in {"none", "contract", "insert", "expand", "count"} :
       LET dataSlice == BuildData(shapes, NextBn)
           r == Pushn(partitions, dataSlice, logPartition, fail)
       IN  /\ Len(ebms) + k <= MaxLogEpoch + 1
           /\ partitions' = IF r.err = "none" THEN r.partitions ELSE partitions
           /\ ebms' = IF r.err = "none" THEN ebms \o BlockRanges(dataSlice) ELSE ebms
           /\ lastLog' = [NoLogCall EXCEPT !.op = "pushn", !.err = r.err,
                                           !.pre = partitions,
                                           !.tx = partitions',
                                           !.index = logPartition,
                                           !.inserted = r.inserted]
  /\ logPartition' = Null
  /\ UNCHANGED <<engineVars, drainVars, monitorVars>>

\* the store pops until epochUntil in one transaction, which is rolled back
\* when Popn returns an error
LogPopn ==
  /\ logPartition = Null
  /\ \E epochUntil \in 0..MaxLogEpoch :
     \E fail \in {"none", "lookup", "shrink", "delete"} :
       LET r == Popn(partitions, ebms, epochUntil, fail)
       IN  /\ partitions' = IF r.err = "none" THEN r.partitions ELSE partitions
           /\ ebms' = IF r.err = "none" THEN SubSeq(ebms, 1, epochUntil) ELSE ebms
           /\ lastLog' = [NoLogCall EXCEPT !.op = "popn", !.err = r.err,
                                           !.pre = partitions, !.tx = r.partitions,
                                           !.epoch = epochUntil,
                                           !.bnFrom = r.bnFrom,
                                           !.returned = r.returned,
                                           !.order = r.order,
                                           !.mapped = BlockRange(ebms, epochUntil).ok]
  /\ UNCHANGED <<logPartition, engineVars, drainVars, monitorVars>>

LogNext ==
  \/ LogPreparePartition
  \/ LogPushn
  \/ LogPopn

LogSpec == LogInit /\ [][LogNext]_vars

(* --------------------- log store, redelivery (RevertSpec) -------------- *)
\* the rows with block number >= bn
RowsFrom(rows, bn) == SelectSeq(rows, LAMBDA r : r >= bn)

\* Pushn takes the block numbers of its rows from the batch it is given. In
\* RevertSpec the caller may also deliver the epoch at the head of the chain
\* once more, with the same blocks, without a Popn in between; the calls
\* made are those that return no error of the database.

\* Pushn of the next epochs of the chain
RevertPushn ==
  /\ logPartition # Null
  /\ \E k \in 1..MaxPushEpochs :
     \E shapes \in [1..k -> EpochShapes] :
       LET dataSlice == BuildData(shapes, NextBn)
           r == Pushn(partitions, dataSlice, logPartition, "none")
       IN  /\ Len(ebms) + k <= MaxLogEpoch + 1
           /\ partitions' = r.partitions
           /\ ebms' = ebms \o BlockRanges(dataSlice)
           /\ lastLog' = [NoLogCall EXCEPT !.op = "pushn", !.pre = partitions,
                                           !.tx = r.partitions,
                                           !.index = logPartition,
                                           !.inserted = r.inserted]
  /\ logPartition' = Null
  /\ UNCHANGED <<engineVars, drainVars, monitorVars>>

\* Pushn of the epoch at the head of the chain, delivered again to a partition
\* that holds none of its rows
RevertPushnAgain ==
  /\ logPartition # Null
  /\ ebms # <<>>
  /\ \E shape \in EpochShapes :
       LET head == ebms[Len(ebms)]
           dataSlice == BuildData(<<shape>>, head.From)
           r == Pushn(partitions, dataSlice, logPartition, "none")
       IN  /\ Len(shape) = head.To - head.From + 1
           /\ RowsFrom(partitions[logPartition + 1].rows, head.From) = <<>>
           /\ partitions' = r.partitions
           /\ lastLog' = [NoLogCall EXCEPT !.op = "pushn", !.pre = partitions,
                                           !.tx = r.partitions,
                                           !.index = logPartition,
                                           !.inserted = r.inserted]
  /\ logPartition' = Null
  /\ UNCHANGED <<ebms, engineVars, drainVars, monitorVars>>

\* Popn until an epoch that has a block mapping
RevertPopn ==
  /\ logPartition = Null
  /\ \E epochUntil \in 0..MaxLogEpoch :
       LET r == Popn(partitions, ebms, epochUntil, "none")
       IN  /\ r.err = "none"
           /\ partitions' = r.partitions
           /\ ebms' = SubSeq(ebms, 1, epochUntil)
           /\ lastLog' = [NoLogCall EXCEPT !.op = "popn", !.pre = partitions,
                                           !.tx = r.partitions,
                                           !.epoch = epochUntil,
                                           !.bnFrom = r.bnFrom,
                                           !.returned = r.returned,
                                           !.order = r.order,
                                           !.mapped = TRUE]
  /\ UNCHANGED <<logPartition, engineVars, drainVars, monitorVars>>

RevertNext ==
  \/ LogPreparePartition
  \/ RevertPushn
  \/ RevertPushnAgain
  \/ RevertPopn

RevertSpec == LogInit /\ [][RevertNext]_vars

(* ----------------------- stall monitor (MonitorSpec) ------------------- *)
theHeights == 0..HeightWrap - 1

MonitorInit ==
  /\ EngineIdle
  /\ DrainIdle
  /\ LogIdle
  /\ monCancel = Null
  /\ monLoops = <<>>
  /\ monHeight = 0
  /\ monSince = 0
  /\ monLag \in 0..MaxLag
  /\ monLast = NoMonCall

\* onSuccess / onFailure: the result loop i hands to the health counter
Report(i, result, err) ==
  [NoMonCall EXCEPT !.kind = "report", !.loop = i, !.result = result,
                    !.err = err, !.within = monSince < MaxStalledDuration,
                    !.cancelled = monLoops[i].cancelled]

\* Monitor.Start, under the mutex
MonStart ==
  /\ Len(monLoops) < MaxStarts
  /\ LET r == Start(monLoops, monCancel)
     IN  /\ monLoops' = r.loops
         /\ monCancel' = r.cancel
         /\ monHeight' = r.currentHeight
         /\ monSince' = r.since
         /\ monLast' = [NoMonCall EXCEPT !.kind = "start", !.noop = monCancel = Null]
  /\ UNCHANGED <<monLag, engineVars, drainVars, logVars>>

\* Monitor.Stop, under the mutex
MonStop ==
  /\ LET r == Stop(monLoops, monCancel)
     IN  /\ monLoops' = r.loops
         /\ monCancel' = r.cancel
         /\ monLast' = [NoMonCall EXCEPT !.kind = "stop", !.noop = monCancel = Null,
                                         !.changed = \/ r.loops # monLoops
                                                     \/ r.cancel # monCancel]
  /\ UNCHANGED <<monHeight, monSince, monLag, engineVars, drainVars, logVars>>

\* Monitor.Update, under the mutex
MonUpdate ==
  /\ \E newHeight \in theHeights :
       LET r == Update(monHeight, monSince, newHeight)
       IN  /\ monHeight' = r.currentHeight
           /\ monSince' = r.since
  /\ UNCHANGED <<monCancel, monLoops, monLag, monLast, engineVars, drainVars, logVars>>

\* time passes
MonTime ==
  /\ monSince < MaxStalledDuration
  /\ monSince' = monSince + 1
  /\ UNCHANGED <<monCancel, monLoops, monHeight, monLag, monLast, engineVars,
                 drainVars, logVars>>

\* run: case <-ticker.C (select may take it although ctx.Done is ready too)
MonTick ==
  /\ \E i \in 1..Len(monLoops) :
       /\ monLoops[i].pc = "select"
       /\ monLoops' = [monLoops EXCEPT ![i].pc = "fetch"]
  /\ UNCHANGED <<monCancel, monHeight, monSince, monLag, monLast, engineVars,
                 drainVars, logVars>>

\* run: case <-ctx.Done()
MonExit ==
  /\ \E i \in 1..Len(monLoops) :
       /\ monLoops[i].pc = "select"
       /\ monLoops[i].cancelled
       /\ monLoops' = [monLoops EXCEPT ![i].pc = "done"]
  /\ UNCHANGED <<monCancel, monHeight, monSince, monLag, monLast, engineVars,
                 drainVars, logVars>>

\* checkOnce: getLatestHeight returns, before the mutex is taken; an error is
\* reported as a failure at once
MonFetch ==
  /\ \E i \in 1..Len(monLoops) : \E err \in BOOLEAN : \E latestHeight \in theHeights :
       /\ monLoops[i].pc = "fetch"
       /\ IF err
          THEN /\ latestHeight = 0
               /\ monLoops' = [monLoops EXCEPT ![i].pc = "select"]
               /\ monLast' = Report(i, checkOnce(TRUE, 0, monSince, monHeight, monLag),
                                    TRUE)
          ELSE /\ monLoops' = [monLoops EXCEPT ![i].pc = "check",
                                               ![i].latest = latestHeight]
               /\ monLast' = monLast
  /\ UNCHANGED <<monCancel, monHeight, monSince, monLag, engineVars, drainVars, logVars>>

\* checkOnce: the part under the mutex
MonCheck ==
  /\ \E i \in 1..Len(monLoops) :
       /\ monLoops[i].pc = "check"
       /\ monLoops' = [monLoops EXCEPT ![i].pc = "select", ![i].latest = 0]
       /\ monLast' = Report(i, checkOnce(FALSE, monLoops[i].latest, monSince,
                                         monHeight, monLag),
                            FALSE)
  /\ UNCHANGED <<monCancel, monHeight, monSince, monLag, engineVars, drainVars, logVars>>

MonitorNext ==
  \/ MonStart
  \/ MonStop
  \/ MonUpdate
  \/ MonTime
  \/ MonTick
  \/ MonExit
  \/ MonFetch
  \/ MonCheck

MonitorSpec == MonitorInit /\ [][MonitorNext]_vars

(* ------------------------ claims on the sync loop ---------------------- *)
Ascending(start, size) == [i \in 1..size |-> start + (i - 1)]

Window(f, t) == [from |-> f, to |-> t]

FailedTick ==
  /\ last.kind = "tick"
  /\ ~isEmpty(last.pre)
  /\ last.err \in {"fetch", "pushn"}

\* C1: a tick on a non-empty window whose fetch fails calls no Pushn, and a
\* tick whose fetch or Pushn fails leaves from and to as they were, commits
\* nothing, and leaves the same range [from, from+size-1] to be peeked again.
C1_FailedTickLeavesWindow ==
  FailedTick =>
    /\ syncWindow = last.pre
    /\ last.calls.shrink = <<>>
    /\ (last.err = "fetch" => last.calls.pushn = <<>>)
    /\ (last.err = "pushn" => Len(last.calls.pushn) = 1)
    /\ LET p == peekShrinkFrom(syncWindow, uint32(maxSyncEpochs))
       IN  /\ <<p.start, p.size>> = last.calls.peek
           /\ p.start = last.pre.from
           /\ p.size = Min(uint32(maxSyncEpochs), last.pre.to - last.pre.from + 1)

\* a tick whose second fetch failed
C1_Witness ==
  /\ FailedTick
  /\ last.err = "fetch"
  /\ Len(last.calls.fetched) = 2
  /\ last.calls.peek = <<last.pre.from, 2>>
  /\ syncWindow = last.pre

SuccessfulTick ==
  /\ last.kind = "tick"
  /\ ~isEmpty(last.pre)
  /\ last.err = "none"

PivotSwitchEvent ==
  /\ last.kind = "epoch"
  /\ peekWillPivotSwitch(last.pre, last.e)

\* C3: a notification e with peekWillPivotSwitch(e) calls Popn(e) exactly once
\* and neither Flush nor expandTo; the window becomes {e, e} if Popn succeeds
\* and is unchanged if it fails ({50, 80} with e = 60 becomes {60, 60}).
C3_PivotSwitchRevert ==
  /\ PivotSwitchEvent =>
       /\ last.calls.popn = <<last.e>>
       /\ last.calls.flush = 0
       /\ last.calls.expandTo = 0
       /\ last.calls.pushn = <<>>
       /\ last.err \in {"none", "popn"}
       /\ (last.err = "none" => syncWindow = Window(last.e, last.e))
       /\ (last.err = "popn" => syncWindow = last.pre)
  /\ handleNewEpoch(Window(50, 80), {}, 60, TRUE, DecayThreshold).window
       = Window(60, 60)

\* a revert to an epoch of a window that starts before it
C3_Witness ==
  /\ PivotSwitchEvent
  /\ last.pre.from < last.e
  /\ last.e <= last.pre.to
  /\ last.err = "none"
  /\ last.calls.popn = <<last.e>>
  /\ syncWindow = Window(last.e, last.e)

OverflowEvent ==
  /\ last.kind = "epoch"
  /\ ~peekWillPivotSwitch(last.pre, last.e)
  /\ peekWillOverflow(last.pre, last.e, DecayThreshold)

ExpandEvent ==
  /\ last.kind = "epoch"
  /\ ~peekWillPivotSwitch(last.pre, last.e)
  /\ ~peekWillOverflow(last.pre, last.e, DecayThreshold)

\* C4: a notification e with no pivot switch and peekWillOverflow(e) calls
\* Flush exactly once and never Popn; the window becomes {e, e} if Flush
\* succeeds ({100, 100}, threshold 5, e = 106 gives {106, 106} and one Flush)
\* and is unchanged if it fails. With neither predicate the only effect is
\* expandTo(e), and no store operation is invoked.
C4_OverflowFlush ==
  /\ OverflowEvent =>
       /\ last.calls.flush = 1
       /\ last.calls.popn = <<>>
       /\ last.calls.expandTo = 0
       /\ last.calls.pushn = <<>>
       /\ last.err \in {"none", "flush"}
       /\ (last.err = "none" => syncWindow = Window(last.e, last.e))
       /\ (last.err = "flush" => syncWindow = last.pre)
  /\ ExpandEvent =>
       /\ last.calls = [NoCalls EXCEPT !.expandTo = 1]
       /\ last.err = "none"
       /\ syncWindow = expandTo(last.pre, last.e)
  /\ LET r == handleNewEpoch(Window(100, 100), {}, 106, TRUE, 5)
     IN  r.window = Window(106, 106) /\ r.calls.flush = 1 /\ r.calls.popn = <<>>

\* the window {f, f} overflown by e = f + threshold + 1, flushed and reset
C4_Witness ==
  /\ OverflowEvent
  /\ last.pre.from = last.pre.to
  /\ last.e = last.pre.from + DecayThreshold + 1
  /\ last.err = "none"
  /\ last.calls.flush = 1
  /\ syncWindow = Window(last.e, last.e)

\* the step handles, with success, the notification that was handled with
\* success just before
DuplicateStep ==
  /\ HandleNewEpoch
  /\ last.kind = "epoch"
  /\ last.err = "none"
  /\ last.e = Head(subEpochCh)
  /\ last'.err = "none"

\* C5 as stated: handling the notification e twice in a row, the store
\* operations succeeding, leaves the window and the store as handling it
\* once does.
C5_DuplicateIdempotent ==
  [][DuplicateStep => (syncWindow' = syncWindow /\ cache' = cache)]_vars

\* C5: handling e again right after handling e is a pivot switch: it calls
\* Popn(e), leaves the store's epochs as they are and sets the window to
\* {e, e}; that is the window left by the first handling exactly when that
\* window's from is e, and otherwise the epochs from..e-1 leave the window.
C5_DuplicateIsPivotSwitch ==
  [][DuplicateStep =>
       /\ syncWindow.to = last.e
       /\ last'.calls.popn = <<last.e>>
       /\ cache' = cache
       /\ syncWindow' = Window(last.e, last.e)
       /\ (syncWindow' = syncWindow <=> syncWindow.from = last.e)]_vars

\* a duplicate of the notification that had extended a longer window
C5_Witness ==
  /\ last.kind = "epoch"
  /\ last.dup
  /\ last.err = "none"
  /\ last.pre.from < last.e
  /\ last.pre.to = last.e
  /\ last.calls.popn = <<last.e>>
  /\ syncWindow = Window(last.e, last.e)

\* C7: in every state the engine reaches, the window has to >= from - 1.
C7_WindowInvariant == syncWindow.to >= syncWindow.from - 1

\* a window a successful tick has just drained: to = from - 1
C7_Witness ==
  /\ SuccessfulTick
  /\ last.calls.shrink[2] >= 1
  /\ syncWindow.to = syncWindow.from - 1
  /\ pc = "running"

Loaded == last.kind = "load"

\* C18: when the cache store returns a range with upper bound m the window
\* starts as {m+1, m}, empty, so that a tick then fetches nothing; when the
\* store reports record-not-found the window keeps its initial zero state;
\* on any other error startup is fatal, and no event is ever handled and no
\* store write issued after it.
C18_StartupLoad ==
  /\ (Loaded /\ last.err = "none") =>
       /\ cache # {}
       /\ syncWindow = Window(SetMax(cache) + 1, SetMax(cache))
       /\ isEmpty(syncWindow)
       /\ pc = "running"
       /\ \A failAt \in 0..MaxBatch + 1 : \A pushOk \in BOOLEAN :
            LET r == syncOnce(syncWindow, cache, uint32(maxSyncEpochs), failAt, pushOk)
            IN  r.calls = NoCalls /\ r.window = syncWindow /\ r.cache = cache
  /\ (Loaded /\ last.err = "notfound") =>
       /\ cache = {}
       /\ syncWindow = newEpochWindow
       /\ pc = "running"
  /\ (Loaded /\ last.err = "other") => pc = "fatal"
  /\ pc = "fatal" =>
       /\ Loaded
       /\ last.err \in {"other", "ensure"}
       /\ last.calls = NoCalls
       /\ syncWindow = newEpochWindow
       /\ subEpochCh = <<>> /\ checkPointCh = 0

\* the store held the epochs 0..1 and the window started as {2, 1}
C18_Witness ==
  /\ Loaded
  /\ last.err = "none"
  /\ cache = {0, 1}
  /\ syncWindow = Window(2, 1)
  /\ pc = "running"

\* the store holds no epochs, or the window starts right after the highest
\* epoch the store holds
FromFollowsStore ==
  cache = {} \/ syncWindow.from = SetMax(cache) + 1

\* and the epochs the store holds form one range without a gap
NoGap ==
  /\ FromFollowsStore
  /\ cache = {} \/ \A x \in Epochs :
                     (\E lo \in cache : lo <= x) /\ x <= SetMax(cache) => x \in cache

\* the step handles, with success, a notification e of an epoch inside the
\* window and above its from: from < e <= to
InnerPivotStep ==
  /\ HandleNewEpoch
  /\ syncWindow.from < Head(subEpochCh)
  /\ Head(subEpochCh) <= syncWindow.to
  /\ last'.err = "none"

\* C20 as stated: in an execution that starts from a loaded upper bound and
\* contains no overflow flush, at every event boundary the store holds no
\* epochs or the window's from is the store's highest epoch + 1, and the
\* epochs the store holds form one range without a gap.
C20_NoEpochSkipped ==
  pc \in {"running", "shutdown"} => NoGap

\* C20: in such an execution the load establishes, and every event other
\* than a pivot switch to an epoch e with from < e <= to preserves, that the
\* store holds no epochs or the window's from is the store's highest epoch
\* + 1 and the store's epochs form one range; such a pivot switch sets the
\* window to {e, e} and leaves the store as it is, so that the epochs
\* from..e-1 are not applied and, when the store holds epochs, from is no
\* longer the store's highest epoch + 1.
C20_NoEpochSkippedButByInnerPivot ==
  /\ []((Loaded /\ pc = "running") => NoGap)
  /\ [][(pc = "running" /\ NoGap /\ ~InnerPivotStep) => NoGap']_vars
  /\ [][InnerPivotStep =>
          /\ syncWindow' = Window(Head(subEpochCh), Head(subEpochCh))
          /\ cache' = cache
          /\ (NoGap /\ cache # {} => ~NoGap')]_vars

\* a pivot switch to the upper bound of a window of two epochs, which left
\* the window one epoch past the epoch that follows the store's highest
C20_Witness ==
  /\ last.kind = "epoch"
  /\ last.err = "none"
  /\ last.pre.from < last.e
  /\ last.e <= last.pre.to
  /\ cache # {}
  /\ SetMax(cache) + 1 = last.pre.from
  /\ syncWindow = Window(last.e, last.e)
  /\ ~NoGap

\* the last event is a tick that called Pushn and got no error from it
PushnSucceeded ==
  /\ last.kind = "tick"
  /\ last.calls.pushn # <<>>
  /\ last.err = "none"

\* the last event is a tick that committed the peeked range to the window
WindowAdvanced ==
  /\ last.kind = "tick"
  /\ last.calls.shrink # <<>>
  /\ syncWindow = shrinkFrom(last.pre, uint32(maxSyncEpochs)).window

\* the last event is a tick that left the window as it found it
WindowKept ==
  /\ last.kind = "tick"
  /\ last.calls.shrink = <<>>
  /\ syncWindow = last.pre

\* C16: under fair choice among the ready cases a raised cancellation leads to
\* the shutdown state; after every tick either Pushn succeeded and the window
\* was advanced by the pushed range, or Pushn did not succeed and the window
\* is as before the tick; the step that observes the cancellation changes
\* neither window nor store; and once shut down, the loop handles no event:
\* the window, the store and the record of calls never change again.
C16_CancelBetweenEvents ==
  /\ ctxDone ~> (pc = "shutdown")
  /\ [](last.kind = "tick" =>
          IF PushnSucceeded THEN WindowAdvanced ELSE WindowKept)
  /\ [][Shutdown => (/\ ctxDone
                     /\ syncWindow' = syncWindow
                     /\ cache' = cache
                     /\ last'.calls = NoCalls)]_vars
  /\ [][pc = "shutdown" => (/\ pc' = "shutdown"
                            /\ syncWindow' = syncWindow
                            /\ cache' = cache
                            /\ last' = last)]_vars

\* shut down with epochs still to sync and a notification still queued
C16_Witness ==
  /\ pc = "shutdown"
  /\ ctxDone
  /\ last.kind = "shutdown"
  /\ ~isEmpty(syncWindow)
  /\ cache # {}
  /\ subEpochCh # <<>>

\* the loop runs, no notification is queued, and the last tick did not fail
Calm ==
  /\ pc = "running"
  /\ subEpochCh = <<>>
  /\ ~(last.kind = "tick" /\ last.err # "none")

\* C17: with sync.maxEpochs >= 1, if from some point on the loop keeps
\* running, no notification arrives and no tick fails, then the window
\* becomes empty and stays empty.
C17_WindowDrains ==
  (maxSyncEpochs >= 1 /\ <>[]Calm) => <>[]isEmpty(syncWindow)

\* the same for a batch limit that is >= 1 as syncOnce passes it on
WindowDrainsForPassedLimit ==
  (uint32(maxSyncEpochs) >= 1 /\ <>[]Calm) => <>[]isEmpty(syncWindow)

(* ------------------------ claims on the log store ---------------------- *)
PartitionIndexes == 1..Len(partitions)

RowsBelow(rows, bn) == SelectSeq(rows, LAMBDA r : r < bn)

PushnDone == lastLog.op = "pushn" /\ lastLog.err = "none"

PopnDone == lastLog.op = "popn" /\ lastLog.err = "none"

\* C8: after any sequence of successful Pushn and Popn calls every
\* partition's count is the number of rows present in it and is never below
\* zero; Pushn adds the number of inserted rows to the target partition's
\* count, Popn subtracts from each partition the number of rows it deleted
\* there.
C8_CountIsRowCount ==
  /\ \A i \in PartitionIndexes :
       /\ partitions[i].count = Len(partitions[i].rows)
       /\ partitions[i].count >= 0
  /\ PushnDone =>
       /\ Len(partitions) = Len(lastLog.pre)
       /\ \A i \in PartitionIndexes :
            /\ Len(partitions[i].rows) - Len(lastLog.pre[i].rows)
                 = (IF i = lastLog.index + 1 THEN lastLog.inserted ELSE 0)
            /\ partitions[i].count - lastLog.pre[i].count
                 = (IF i = lastLog.index + 1 THEN lastLog.inserted ELSE 0)
  /\ PopnDone =>
       /\ Len(partitions) = Len(lastLog.pre)
       /\ \A i \in PartitionIndexes :
            /\ lastLog.pre[i].count - partitions[i].count
                 = Len(lastLog.pre[i].rows) - Len(partitions[i].rows)
            /\ (partitions[i].count # lastLog.pre[i].count
                  => \E k \in 1..Len(lastLog.returned) : lastLog.returned[k] = i - 1)

\* a Popn that removed some, not all, of the rows of a partition
C8_Witness ==
  /\ PopnDone
  /\ \E i \in PartitionIndexes :
       /\ partitions[i].count > 0
       /\ partitions[i].count < lastLog.pre[i].count
       /\ partitions[i].count = Len(partitions[i].rows)

\* C9: after a successful Popn with block-number boundary b no partition
\* holds a row with block number >= b, and every row with block number < b
\* that was there before the call is still in the same partition.
C9_PopnCutsAtBoundary ==
  PopnDone =>
    /\ lastLog.mapped
    /\ Len(partitions) = Len(lastLog.pre)
    /\ \A i \in PartitionIndexes :
         /\ \A k \in 1..Len(partitions[i].rows) :
              partitions[i].rows[k] < lastLog.bnFrom
         /\ partitions[i].rows = RowsBelow(lastLog.pre[i].rows, lastLog.bnFrom)

\* a Popn over two partitions that emptied one and cut the other in part
C9_Witness ==
  /\ PopnDone
  /\ Len(lastLog.returned) >= 2
  /\ \E i \in PartitionIndexes :
       /\ partitions[i].rows # <<>>
       /\ Len(partitions[i].rows) < Len(lastLog.pre[i].rows)
  /\ \E i \in PartitionIndexes :
       /\ partitions[i].rows = <<>>
       /\ lastLog.pre[i].rows # <<>>

PopnUnmapped ==
  /\ lastLog.op = "popn"
  /\ (~lastLog.mapped \/ lastLog.err = "lookup")

\* C10: a Popn for an epoch without block mapping, or whose lookup fails,
\* returns an error and changes nothing: no range, no count, no row.
C10_PopnWithoutMapping ==
  PopnUnmapped =>
    /\ lastLog.err \in {"lookup", "nomapping"}
    /\ lastLog.returned = <<>>
    /\ lastLog.tx = lastLog.pre
    /\ partitions = lastLog.pre

\* a Popn for an epoch that was never pushed, on a store that holds rows
C10_Witness ==
  /\ PopnUnmapped
  /\ ~lastLog.mapped
  /\ lastLog.err = "nomapping"
  /\ lastLog.epoch >= Len(ebms)
  /\ \E i \in PartitionIndexes : partitions[i].count > 0
  /\ partitions = lastLog.pre

PrepareDone == lastLog.op = "prepare"

\* C11: preparePartition returns the highest-index partition unchanged when
\* there is one with count below the volume size; when there is none or the
\* latest has count >= the volume size it grows a partition with index =
\* previous highest + 1 (0 if first) and count 0 and returns that. The
\* partition a Pushn writes to is the highest-index one, all rows of the
\* batch land in it and no other partition's rows change; an insert of one
\* row into a partition just grown leaves it with count 1.
C11_PreparePartition ==
  /\ PrepareDone =>
       LET pre == lastLog.pre
       IN  IF Len(pre) > 0 /\ pre[Len(pre)].count < VolumeSize
           THEN /\ partitions = pre
                /\ lastLog.index = Len(pre) - 1
           ELSE /\ partitions = Append(pre, NewPartition)
                /\ lastLog.index = Len(pre)
                /\ partitions[lastLog.index + 1].count = 0
                /\ (Len(pre) = 0 => lastLog.index = 0)
  /\ logPartition # Null => logPartition = Len(partitions) - 1
  /\ PushnDone =>
       /\ lastLog.index = Len(partitions) - 1
       /\ Len(partitions) = Len(lastLog.pre)
       /\ \A i \in PartitionIndexes :
            i # lastLog.index + 1 => partitions[i] = lastLog.pre[i]
       /\ Len(partitions[lastLog.index + 1].rows)
            = Len(lastLog.pre[lastLog.index + 1].rows) + lastLog.inserted
       /\ (lastLog.pre[lastLog.index + 1].count = 0 /\ lastLog.inserted = 1
             => partitions[lastLog.index + 1].count = 1)

\* partition 0 filled to the volume size by inserts of one row each, and the
\* next insert of one row landed in partition 1, grown with count 0
C11_Witness ==
  /\ PushnDone
  /\ lastLog.index = 1
  /\ lastLog.inserted = 1
  /\ partitions[1].count = VolumeSize
  /\ lastLog.pre[2] = NewPartition
  /\ partitions[2].count = 1

RECURSIVE ShapeLogs(_)
\* the number of logs of an epoch of the given shape
ShapeLogs(shape) ==
  IF shape = <<>> THEN 0 ELSE Head(shape) + ShapeLogs(Tail(shape))

\* the most rows one Pushn batch can hold
MaxBatchRows == MaxPushEpochs * SetMax({ShapeLogs(s) : s \in EpochShapes})

\* C12 as stated: after any sequence of preparePartition + Pushn batches and
\* Popn calls no partition's count exceeds the volume size.
C12_CountWithinVolume ==
  \A i \in PartitionIndexes : partitions[i].count <= VolumeSize

\* C12: a partition takes a batch only while its count is below the volume
\* size, and then takes the whole batch; so no partition's count exceeds
\* volume size - 1 + the rows of one batch.
C12_CountWithinVolumePlusBatch ==
  /\ \A i \in PartitionIndexes :
       partitions[i].count <= VolumeSize - 1 + MaxBatchRows
  /\ PushnDone =>
       /\ lastLog.pre[lastLog.index + 1].count < VolumeSize
       /\ partitions[lastLog.index + 1].count
            <= VolumeSize - 1 + lastLog.inserted

\* a batch pushed into a partition one row short of the volume size, which
\* left it above the volume size
C12_Witness ==
  /\ PushnDone
  /\ lastLog.pre[lastLog.index + 1].count = VolumeSize - 1
  /\ lastLog.inserted >= 2
  /\ partitions[lastLog.index + 1].count > VolumeSize

\* a successful Popn on three partitions whose boundary is partition 2's
\* recorded bnMin and lies inside partition 1's range, above its bnMin
RevertScenario ==
  /\ PopnDone
  /\ Len(lastLog.pre) = 3
  /\ lastLog.pre[3].bnMin = lastLog.bnFrom
  /\ lastLog.pre[2].bnMin # Null
  /\ lastLog.pre[2].bnMin < lastLog.bnFrom
  /\ lastLog.bnFrom <= lastLog.pre[2].bnMax

\* C13: with partitions 0, 1, 2, a Popn whose boundary is partition 2's
\* recorded bnMin and lies strictly inside partition 1's range deletes from
\* partition 2 before partition 1 and leaves partition 2 without rows, with
\* count 0 and its range cleared, partition 1 with its count reduced by the
\* number of its rows at or above the boundary and bnMax = boundary - 1, and
\* partition 0 with its rows, count and range as they were.
C13_RevertThreePartitions ==
  RevertScenario =>
    /\ lastLog.returned = <<1, 2>>
    /\ lastLog.order = <<2, 1>>
    /\ partitions[3] = NewPartition
    /\ partitions[2].rows = RowsBelow(lastLog.pre[2].rows, lastLog.bnFrom)
    /\ partitions[2].count
         = lastLog.pre[2].count - Len(RowsFrom(lastLog.pre[2].rows, lastLog.bnFrom))
    /\ partitions[2].bnMax = lastLog.bnFrom - 1
    /\ partitions[2].bnMin = lastLog.pre[2].bnMin
    /\ partitions[1] = lastLog.pre[1]

\* the scenario with rows in all three partitions, partition 1 keeping some of
\* its rows and losing the others
C13_Witness ==
  /\ RevertScenario
  /\ lastLog.pre[1].rows # <<>>
  /\ lastLog.pre[3].rows # <<>>
  /\ partitions[2].rows # <<>>
  /\ Len(partitions[2].rows) < Len(lastLog.pre[2].rows)
  /\ partitions[3].rows = <<>>
  /\ lastLog.order = <<2, 1>>

\* every row of partition q lies within q's recorded range
RangeCovers(q) ==
  \A k \in 1..Len(q.rows) :
    /\ q.bnMin # Null
    /\ q.bnMin <= q.rows[k]
    /\ q.rows[k] <= q.bnMax

\* the last call is a Popn that called shrinkBnRange and got its partitions
PopnShrunk ==
  /\ lastLog.op = "popn"
  /\ lastLog.err \in {"none", "delete"}

\* the last call is a Pushn of a batch without logs
ZeroLogPushn ==
  /\ lastLog.op = "pushn"
  /\ lastLog.err = "none"
  /\ lastLog.inserted = 0

\* C21: between the calls every row of every partition lies within the
\* partition's recorded [bnMin, bnMax]; the partitions shrinkBnRange hands
\* to Popn include every partition that held a row at or above the revert
\* boundary; and a Pushn of a batch without logs leaves the number of
\* partitions and every partition's range, count and rows as they were.
C21_RangeCoversRows ==
  /\ \A i \in 1..Len(partitions) : RangeCovers(partitions[i])
  /\ PopnShrunk =>
       \A i \in 1..Len(lastLog.pre) :
         RowsFrom(lastLog.pre[i].rows, lastLog.bnFrom) # <<>> =>
           \E j \in 1..Len(lastLog.returned) : lastLog.returned[j] = i - 1
  /\ ZeroLogPushn =>
       /\ partitions = lastLog.pre
       /\ lastLog.tx = lastLog.pre

\* a Popn took rows from two partitions, both handed to it by shrinkBnRange,
\* and left rows in the store
C21_Witness ==
  /\ PopnShrunk
  /\ lastLog.err = "none"
  /\ Len(lastLog.returned) >= 2
  /\ \E i, j \in 1..Len(lastLog.pre) :
       /\ i # j
       /\ RowsFrom(lastLog.pre[i].rows, lastLog.bnFrom) # <<>>
       /\ RowsFrom(lastLog.pre[j].rows, lastLog.bnFrom) # <<>>
  /\ \E i \in 1..Len(partitions) : partitions[i].rows # <<>>

\* a batch without logs has been pushed into a store whose partitions hold
\* rows and recorded ranges
C21_ZeroLogReached ==
  /\ ZeroLogPushn
  /\ \E i \in 1..Len(partitions) : partitions[i].rows # <<>>
  /\ Len(partitions) >= 2

(* ---------------------- claims on the stall monitor -------------------- *)
Reported == monLast.kind = "report"

\* the loops whose context is not cancelled
LiveLoops == {i \in 1..Len(monLoops) : ~monLoops[i].cancelled}

\* C14: a check that runs while the time since the last height advance is
\* below MaxStalledDuration reports success, whatever the height source
\* returns, an error included.
C14_WithinThresholdSucceeds ==
  (Reported /\ monLast.within) => monLast.result = "success"

\* at most one loop is not cancelled, and it is the one m.cancel stands for;
\* a Start leaves every earlier loop cancelled
AtMostOneLiveLoop ==
  /\ Cardinality(LiveLoops) <= 1
  /\ (monCancel = Null => LiveLoops = {})
  /\ (monCancel # Null => LiveLoops = {monCancel})
  /\ monLast.kind = "start" =>
       /\ monCancel = Len(monLoops)
       /\ \A i \in 1..Len(monLoops) - 1 : monLoops[i].cancelled
  /\ \A i \in 1..Len(monLoops) : monLoops[i].pc = "done" => monLoops[i].cancelled

\* a Stop when m.cancel is nil changes nothing; after any Stop m.cancel is nil
StopIsIdempotent ==
  monLast.kind = "stop" =>
    /\ monCancel = Null
    /\ (monLast.noop => ~monLast.changed)
    /\ (~monLast.noop => monLast.changed)

\* C15 as stated: at most one non-cancelled loop exists, a second Start
\* cancels the loop of the first, a Stop without a Start or after a Stop has
\* no effect, and once Stop has returned no check result is reported.
C15_NoReportOnceStopped ==
  /\ AtMostOneLiveLoop
  /\ StopIsIdempotent
  /\ Reported => monCancel # Null

\* C15: at most one non-cancelled loop exists, a second Start cancels the
\* loop of the first, a Stop without a Start or after a Stop has no effect,
\* and a result reported once Stop has returned comes from a loop whose
\* context was cancelled before it reported.
C15_StartStopIdempotent ==
  /\ AtMostOneLiveLoop
  /\ StopIsIdempotent
  /\ (Reported /\ monCancel = Null) =>
       /\ monLast.cancelled
       /\ monLoops[monLast.loop].cancelled

\* the loop of the second Start, cancelled by a Stop, reports a result after it
C15_Witness ==
  /\ Reported
  /\ monCancel = Null
  /\ monLast.loop = 2
  /\ monLast.cancelled
  /\ monLoops[1].cancelled
  /\ LiveLoops = {}

\* C19: a check made when the height has not advanced for MaxStalledDuration
\* and the height source succeeds reports failure whenever latestHeight -
\* currentHeight > MaxAllowedLag and success whenever currentHeight >=
\* latestHeight or latestHeight - currentHeight < MaxAllowedLag, also for
\* MaxAllowedLag = 0 and currentHeight = 0.
C19_LagDecides ==
  [][(MonCheck /\ monSince >= MaxStalledDuration) =>
       LET latestHeight == monLoops[monLast'.loop].latest
       IN  /\ (latestHeight - monHeight > monLag => monLast'.result = "failure")
           /\ (monHeight >= latestHeight \/ latestHeight - monHeight < monLag
                 => monLast'.result = "success")]_vars

(* -------------------------- claims on the drain ------------------------ *)
\* C6: shrinkFrom(n), n >= 1, returns start = from and size = min(n,
\* to-from+1), 0 on an empty window and never more than n; the chunks of
\* repeated calls are from, from+1, ... in ascending order, each epoch once,
\* and are exactly from..to once the window is empty.
C6_ShrinkFromDrains ==
  /\ drainLast.called =>
       /\ drainLast.start = drainLast.pre.from
       /\ drainLast.size = Min(drainCount, drainLast.pre.to - drainLast.pre.from + 1)
       /\ (isEmpty(drainLast.pre) => drainLast.size = 0)
       /\ drainLast.size <= drainCount
       /\ drainWindow = Window(drainLast.pre.from + drainLast.size, drainLast.pre.to)
  /\ drained = Ascending(drainOrigin.from, Len(drained))
  /\ Len(drained) <= drainOrigin.to - drainOrigin.from + 1
  /\ isEmpty(drainWindow) => Len(drained) = drainOrigin.to - drainOrigin.from + 1

\* a window of five epochs drained in chunks of two, two and one
C6_Witness ==
  /\ drainOrigin = Window(0, 4)
  /\ drainCount = 2
  /\ isEmpty(drainWindow)
  /\ drained = <<0, 1, 2, 3, 4>>
  /\ drainLast.called /\ drainLast.start = 4 /\ drainLast.size = 1

====
